---- MODULE Spec2Model ----
(***************************************************************************)
(* The skills manager script (scripts/cli.ts, kept in src/README.md from   *)
(* line 44 on) and its registry (src/meta.ts): init / sync / check over    *)
(* git submodules and the published skills/ tree.                          *)
(*                                                                         *)
(* The working tree is one function  fs : path -> entry.  A path is the    *)
(* sequence of its components below the repository root (the root is <<>>),*)
(* an entry is a directory, a regular file with its data, or a symlink.    *)
(* File data is a sequence of text tokens, so that String.includes and     *)
(* template literals are computed on text and not on abstract values.      *)
(***************************************************************************)
EXTENDS Integers, Sequences, FiniteSets, TLC

VARIABLES
    meta,     \* the registry the script imports from ../meta
    fs,       \* the working tree below root
    repo,     \* git's own state of every checkout: HEAD and commits behind @{u}
    today,    \* index into Dates: what new Date() reads
    pc,       \* position of the running process ("idle": no process)
    frame,    \* the locals of the running operation
    log,      \* what the process printed, in order
    execs,    \* the external commands the process ran, in order
    hist      \* history: the tree at process start, the previous process

vars == <<meta, fs, repo, today, pc, frame, log, execs, hist>>

(***************************************************************************)
(* Bounds of the model.                                                    *)
(***************************************************************************)
MaxRuns == 2      \* processes started one after the other (SpecTwice)
MaxBehind == 2    \* largest number of commits a checkout is behind
MaxDay == 2       \* calendar days the runs may span

(***************************************************************************)
(* Sequences.                                                              *)
(***************************************************************************)
IsPrefix(p, q) == Len(p) <= Len(q) /\ SubSeq(q, 1, Len(p)) = p

Range(s) == {s[k] : k \in 1..Len(s)}

\* index of the first occurrence of pat in s as a contiguous run, 0 if none
IndexOf(s, pat) ==
    LET hits == {k \in 1..(Len(s) - Len(pat) + 1) : SubSeq(s, k, k + Len(pat) - 1) = pat}
    IN  IF hits = {} THEN 0 ELSE CHOOSE k \in hits : \A j \in hits : k <= j

\* String.prototype.includes
Includes(s, pat) == IndexOf(s, pat) # 0

RECURSIVE Flatten(_)
Flatten(ss) == IF ss = <<>> THEN <<>> ELSE Head(ss) \o Flatten(Tail(ss))

\* a finite set as a sequence without repetition, in the one order TLC's
\* CHOOSE fixes (readdir promises no particular order)
RECURSIVE SetToSeq(_)
SetToSeq(S) ==
    IF S = {} THEN <<>>
    ELSE LET m == CHOOSE x \in S : TRUE
         IN  <<m>> \o SetToSeq(S \ {m})

(***************************************************************************)
(* node:path                                                               *)
(***************************************************************************)
join(a, b) == a \o b

dirname(p) == IF p = <<>> THEN <<>> ELSE SubSeq(p, 1, Len(p) - 1)

basename(p) == p[Len(p)]

\* a replace whose pattern never matches
replaceNoMatch(s, pat) == s

\* String.prototype.replace(pattern, '') with a string pattern: the first
\* occurrence of pat is removed, nothing else
replace(s, pat) ==
    LET k == IndexOf(s, pat)
    IN  IF k = 0 THEN s ELSE SubSeq(s, 1, k - 1) \o SubSeq(s, k + Len(pat), Len(s))

(***************************************************************************)
(* node:fs on the tree f                                                   *)
(***************************************************************************)
Dir == [kind |-> "dir", data |-> <<>>]

File(d) == [kind |-> "file", data |-> d]

Link == [kind |-> "symlink", data |-> <<>>]

existsIn(f, p) == p \in DOMAIN f

existsSync(p) == existsIn(fs, p)

Ancestors(p) == {SubSeq(p, 1, k) : k \in 0..Len(p)}

\* mkdirSync(p, { recursive: true }): p and every missing ancestor
mkdirSync(f, p) == f @@ [q \in Ancestors(p) |-> Dir]

\* rmSync(p, { recursive: true }): p and everything below it
rmSync(f, p) == [q \in {q \in DOMAIN f : ~IsPrefix(p, q)} |-> f[q]]

\* cpSync(src, dst) of one file: dst gets src's data, replacing what was there
cpSync(f, src, dst) == (dst :> File(f[src].data)) @@ f

writeFileSync(f, p, d) == (p :> File(d)) @@ f

readFileSync(p) == fs[p].data

\* the paths strictly below p
Below(f, p) == {q \in DOMAIN f : IsPrefix(p, q) /\ q # p}

(***************************************************************************)
(* src/meta.ts: the registry.  Object.entries enumerates in insertion      *)
(* order, so every collection is a sequence.                               *)
(***************************************************************************)
submodules ==
    << [name |-> "vue",    url |-> "https://github.com/vuejs/docs"],
       [name |-> "nuxt",   url |-> "https://github.com/nuxt/nuxt"],
       [name |-> "vite",   url |-> "https://github.com/vitejs/vite"],
       [name |-> "unocss", url |-> "https://github.com/unocss/unocss"] >>

vendors ==
    << [name |-> "slidev", source |-> "https://github.com/slidevjs/slidev",
        skills |-> << [src |-> "slidev", out |-> "slidev"] >>],
       [name |-> "vueuse", source |-> "https://github.com/vueuse/skills",
        skills |-> << [src |-> "vueuse-functions", out |-> "vueuse"] >>],
       [name |-> "vue-best-practices", source |-> "https://github.com/hyf0/vue-skills",
        skills |-> << [src |-> "vue-best-practices", out |-> "vue-best-practices"] >>] >>

ShippedMeta == [submodules |-> submodules, vendors |-> vendors]

\* A substitute registry of the same shape (meta.ts is the file a maintainer
\* edits): one source, a vendor with two skill pairs and a vendor with one.
DemoMeta ==
    [submodules |-> << [name |-> "lib", url |-> "https://example.org/lib"] >>,
     vendors |->
       << [name |-> "demo", source |-> "https://example.org/demo",
           skills |-> << [src |-> "demo-skill", out |-> "demo"],
                         [src |-> "extra-skill", out |-> "extra"] >>],
          [name |-> "kit", source |-> "https://example.org/kit",
           skills |-> << [src |-> "kit-skill", out |-> "kit"] >>] >>]

Registries == {ShippedMeta, DemoMeta}

\* The text of a name, cut into tokens so that one name being the beginning
\* of another ("vue", "vueuse", "vue-router") shows as a prefix of tokens.
Spell(name) ==
    CASE name = "vueuse"             -> <<"vue", "use">>
      [] name = "vue-best-practices" -> <<"vue", "-best-practices">>
      [] name = "vue-router"         -> <<"vue", "-router">>
      [] name = "lib-extra"          -> <<"lib", "-extra">>
      [] OTHER                       -> <<name>>

\* the text of a path such as sources/vue
PathText(p) == <<p[1], "/">> \o Spell(p[2])

(***************************************************************************)
(* JavaScript values the script handles: string | null, and numbers read   *)
(* from text.                                                              *)
(***************************************************************************)
Null == [isNull |-> TRUE, str |-> <<>>]

Str(t) == [isNull |-> FALSE, str |-> t]

\* `${v}` in a template literal: null prints as the word null
Template(v) == IF v.isNull THEN <<"null">> ELSE v.str

\* the `v && ...` test on string | null: null and "" are falsy
Truthy(v) == ~v.isNull /\ v.str # <<>>

DigitChars == <<"0", "1", "2", "3", "4", "5", "6", "7", "8", "9">>

\* how git prints a count: decimal digits, most significant first
RECURSIVE Digits(_)
Digits(n) ==
    IF n < 10 THEN <<DigitChars[n + 1]>>
    ELSE Digits(n \div 10) \o <<DigitChars[(n % 10) + 1]>>

DigitValue(c) == (CHOOSE k \in 1..10 : DigitChars[k] = c) - 1

\* Number.parseInt on a run of digits; -1 stands for NaN (no leading digit),
\* which like NaN is not > 0
RECURSIVE ParseDigits(_, _)
ParseDigits(t, acc) ==
    IF t = <<>> \/ Head(t) \notin Range(DigitChars) THEN acc
    ELSE ParseDigits(Tail(t), acc * 10 + DigitValue(Head(t)))

parseInt(t) ==
    IF t = <<>> \/ Head(t) \notin Range(DigitChars) THEN -1 ELSE ParseDigits(t, 0)

(***************************************************************************)
(* git, as far as the script relies on it.  A directory is a checkout when *)
(* it holds .git; a command run in a directory acts on the nearest         *)
(* enclosing checkout (git's repository discovery).                        *)
(***************************************************************************)
GitDir == <<".git">>

Enclosing(f, dir) == {a \in Ancestors(dir) : existsIn(f, join(a, GitDir))}

Discover(f, dir) ==
    CHOOSE a \in Enclosing(f, dir) : \A b \in Enclosing(f, dir) : Len(b) <= Len(a)

\* exec('git rev-parse HEAD', dir): ok with the commit hash, or a failure
RevParseHead(f, r, dir) ==
    IF Enclosing(f, dir) = {} \/ r[Discover(f, dir)].head = ""
    THEN [ok |-> FALSE, out |-> <<>>]
    ELSE [ok |-> TRUE, out |-> <<r[Discover(f, dir)].head, "\n">>]

\* exec('git rev-list HEAD..@{u} --count', dir): fails without HEAD or upstream
RevListCount(f, r, dir) ==
    IF Enclosing(f, dir) = {} \/ r[Discover(f, dir)].head = ""
       \/ r[Discover(f, dir)].behind < 0
    THEN [ok |-> FALSE, out |-> <<>>]
    ELSE [ok |-> TRUE, out |-> Digits(r[Discover(f, dir)].behind) \o <<"\n">>]

\* one entry of .gitmodules as git writes it
GitmodulesEntry(path, url) ==
    <<"[submodule ">> \o PathText(path) \o <<"]", "path = ">> \o PathText(path)
        \o <<"url = ", url>>

Gitmodules == <<".gitmodules">>

(***************************************************************************)
(* The script's helpers (README.md 54-77).                                 *)
(***************************************************************************)
Whitespace == {" ", "\n", "\t"}

\* String.prototype.trim
RECURSIVE trimStart(_)
trimStart(t) == IF t # <<>> /\ Head(t) \in Whitespace THEN trimStart(Tail(t)) ELSE t

RECURSIVE trimEnd(_)
trimEnd(t) ==
    IF t # <<>> /\ t[Len(t)] \in Whitespace THEN trimEnd(SubSeq(t, 1, Len(t) - 1)) ELSE t

trim(t) == trimEnd(trimStart(t))

\* exec: the trimmed output of a command that exited 0 (a failure throws)
exec(res) == [ok |-> res.ok, out |-> trim(res.out)]

\* execSafe handing on the output as the command printed it
execSafeRaw(res) == IF res.ok THEN Str(res.out) ELSE Null

\* execSafe: the output, or null when exec throws
execSafe(res) == IF exec(res).ok THEN Str(exec(res).out) ELSE Null

getGitSha(f, r, dir) == execSafe(RevParseHead(f, r, dir))

\* a test that never finds the path
submoduleExistsNever(f, path) == FALSE

submoduleExists(f, path) ==
    IF ~existsIn(f, Gitmodules) THEN FALSE
    ELSE Includes(f[Gitmodules].data, <<"path = ">> \o PathText(path))

\* allProjects of initSubmodules
Projects(m) ==
    [k \in 1..Len(m.submodules) |->
        [name |-> m.submodules[k].name, url |-> m.submodules[k].url,
         type |-> "source", path |-> <<"sources", m.submodules[k].name>>]]
    \o
    [k \in 1..Len(m.vendors) |->
        [name |-> m.vendors[k].name, url |-> m.vendors[k].source,
         type |-> "vendor", path |-> <<"vendor", m.vendors[k].name>>]]

(***************************************************************************)
(* The working trees the runs start from.                                  *)
(***************************************************************************)
NoTree == [q \in {} |-> Dir]

\* the tree t (relative paths) placed at path p
Mount(p, t) ==
    [q \in {join(p, rel) : rel \in DOMAIN t} |-> t[SubSeq(q, Len(p) + 1, Len(q))]]

TreeA == (<<>> :> Dir) @@ (<<"SKILL.md">> :> File(<<"X">>))

TreeB ==
    (<<>> :> Dir) @@ (<<"SKILL.md">> :> File(<<"Y">>))
    @@ (<<"references">> :> Dir) @@ (<<"references", "a.md">> :> File(<<"A">>))
    @@ (<<"assets">> :> Dir) @@ (<<"link">> :> Link)

\* a source skill that itself ships files named like the injected ones
TreeC ==
    (<<>> :> Dir) @@ (<<"SKILL.md">> :> File(<<"X">>))
    @@ (<<"SYNC.md">> :> File(<<"S0">>)) @@ (<<"LICENSE.md">> :> File(<<"L0">>))

\* what an earlier sync of another shape left in an output directory
StaleOut ==
    (<<>> :> Dir) @@ (<<"SKILL.md">> :> File(<<"Z">>))
    @@ (<<"old.md">> :> File(<<"O">>))
    @@ (<<"references">> :> Dir) @@ (<<"references", "old.md">> :> File(<<"O">>))
    @@ (<<"SYNC.md">> :> File(<<"S1">>)) @@ (<<"LICENSE.md">> :> File(<<"L1">>))

LicenseNone == NoTree

LicenseUpper == (<<"LICENSE">> :> File(<<"MIT">>))

LicenseMixed ==
    (<<"LICENSE.txt">> :> File(<<"TXT">>)) @@ (<<"license.md">> :> File(<<"lower">>))

\* A checkout profile: what is at sources/<name> or vendor/<name>.
\*   kind "absent": nothing; "empty": the bare directory git leaves for a
\*   submodule that was never initialised; "repo": an initialised checkout.
\*   trees[k] is the tree of the k-th source skill (NoTree: not there).
Absent == [kind |-> "absent", skillsDir |-> FALSE, trees |-> <<>>,
           license |-> LicenseNone, head |-> "", behind |-> -1]

Empty == [Absent EXCEPT !.kind = "empty"]

Checkout(hasSkills, trees, license, head, behind) ==
    [kind |-> "repo", skillsDir |-> hasSkills, trees |-> trees,
     license |-> license, head |-> head, behind |-> behind]

RECURSIVE MountAll(_, _, _)
MountAll(trees, srcs, k) ==
    IF k > Len(srcs) \/ k > Len(trees) THEN NoTree
    ELSE Mount(<<"skills", srcs[k]>>, trees[k]) @@ MountAll(trees, srcs, k + 1)

\* the tree of a checkout with profile pr, for the source skills srcs
CheckoutTree(pr, srcs) ==
    IF pr.kind = "absent" THEN NoTree
    ELSE IF pr.kind = "empty" THEN (<<>> :> Dir)
    ELSE (<<>> :> Dir) @@ (GitDir :> Dir) @@ pr.license
         @@ (IF pr.skillsDir THEN (<<"skills">> :> Dir) @@ MountAll(pr.trees, srcs, 1)
             ELSE NoTree)

SrcNames(v) == [k \in 1..Len(v.skills) |-> v.skills[k].src]

OutNames(m) == UNION {{v.skills[j].out : j \in 1..Len(v.skills)} : v \in Range(m.vendors)}

RECURSIVE MountSources(_, _, _)
MountSources(m, prof, k) ==
    IF k > Len(m.submodules) THEN NoTree
    ELSE Mount(<<"sources", m.submodules[k].name>>,
               CheckoutTree(prof[m.submodules[k].name], <<>>))
         @@ MountSources(m, prof, k + 1)

RECURSIVE MountVendors(_, _, _)
MountVendors(m, prof, k) ==
    IF k > Len(m.vendors) THEN NoTree
    ELSE Mount(<<"vendor", m.vendors[k].name>>,
               CheckoutTree(prof[m.vendors[k].name], SrcNames(m.vendors[k])))
         @@ MountVendors(m, prof, k + 1)

RECURSIVE MountStale(_)
MountStale(outs) ==
    IF outs = {} THEN NoTree
    ELSE LET o == CHOOSE x \in outs : TRUE
         IN  Mount(<<"skills", o>>, StaleOut) @@ MountStale(outs \ {o})

\* .gitmodules holding the entries of the paths in registered (a sequence of
\* [path, url]); noFile: there is no .gitmodules at all
ManifestFile(noFile, registered) ==
    IF noFile THEN NoTree
    ELSE (Gitmodules :> File(Flatten([k \in 1..Len(registered) |->
              GitmodulesEntry(registered[k].path, registered[k].url)])))

\* A world: the registry m, the tree and git's state.  prof maps every
\* project name to its checkout profile; stale is the set of output skill
\* directories an earlier sync left behind; superBehind is the superproject's
\* own distance to its upstream.
World(m, noFile, registered, prof, stale, superBehind) ==
    LET mounted == MountSources(m, prof, 1) @@ MountVendors(m, prof, 1)
        parents == [q \in {<<d>> : d \in {q[1] : q \in DOMAIN mounted}} |-> Dir]
    IN  [meta |-> m,
         fs |-> (<<>> :> Dir) @@ (GitDir :> Dir) @@ (<<"skills">> :> Dir)
                @@ Mount(<<"skills", m.submodules[1].name>>, TreeA)
                @@ ManifestFile(noFile, registered)
                @@ parents @@ mounted @@ MountStale(stale),
         repo |-> (<<>> :> [head |-> "super", behind |-> superBehind])
                @@ [q \in {pj.path : pj \in Range(Projects(m))} |->
                       [head |-> prof[q[2]].head, behind |-> prof[q[2]].behind]]]

\* profiles of a source checkout
SourceRepo(behind) == Checkout(FALSE, <<>>, LicenseUpper, "src1", behind)

\* profiles of the vendor "demo" (two source skills)
DemoFull == Checkout(TRUE, <<TreeA, TreeB>>, LicenseUpper, "d1", 0)

DemoOther == Checkout(TRUE, <<TreeB, TreeC>>, LicenseMixed, "", 1)

DemoMissFirst == Checkout(TRUE, <<NoTree, TreeA>>, LicenseNone, "d2", MaxBehind)

DemoMissLast == Checkout(TRUE, <<TreeC>>, LicenseUpper, "d3", -1)

DemoNoSkills == Checkout(FALSE, <<>>, LicenseUpper, "d4", 0)

\* profiles of a vendor with one source skill
OneFull == Checkout(TRUE, <<TreeA>>, LicenseNone, "k1", 1)

OneOther == Checkout(TRUE, <<TreeB>>, LicenseUpper, "k2", 0)

OneMiss == Checkout(TRUE, <<>>, LicenseMixed, "k3", 0)

\* the initialised states git may move a vendor checkout between when
\* `git submodule update --remote --merge` pulls new upstream commits
RepoProfiles(v) ==
    IF Len(v.skills) = 2 THEN {DemoFull, DemoOther, DemoMissFirst, DemoMissLast, DemoNoSkills}
    ELSE {OneFull, OneOther, OneMiss}

AllRegistered(m) == Projects(m)

Foreign(dir, name) == [path |-> <<dir, name>>, url |-> "https://example.org/else"]

\* every project absent
NoneThere(m) == [n \in {pj.name : pj \in Range(Projects(m))} |-> Absent]

DemoSyncWorlds ==
    {World(DemoMeta, FALSE, AllRegistered(DemoMeta),
           [NoneThere(DemoMeta) EXCEPT !["lib"] = SourceRepo(0), !["demo"] = pd, !["kit"] = pk],
           stale, 0) :
        pd \in {Absent, Empty} \cup RepoProfiles(DemoMeta.vendors[1]),
        pk \in {Absent} \cup RepoProfiles(DemoMeta.vendors[2]),
        stale \in {{}, OutNames(DemoMeta)}}

DemoCheckWorlds ==
    {World(DemoMeta, FALSE, AllRegistered(DemoMeta),
           [NoneThere(DemoMeta) EXCEPT !["lib"] = pl, !["demo"] = pd, !["kit"] = pk],
           {}, sb) :
        pl \in {Absent, Empty} \cup {SourceRepo(b) : b \in -1..MaxBehind},
        pd \in {Empty, DemoFull, DemoMissFirst, DemoMissLast},
        pk \in {Absent, OneFull},
        sb \in {0, MaxBehind}}

DemoInitWorlds ==
    {World(DemoMeta, TRUE, <<>>, NoneThere(DemoMeta), {}, 0),
     World(DemoMeta, FALSE, <<>>, NoneThere(DemoMeta), {}, 0),
     World(DemoMeta, FALSE, <<Projects(DemoMeta)[1]>>,
           [NoneThere(DemoMeta) EXCEPT !["lib"] = SourceRepo(0)], {}, 0),
     World(DemoMeta, FALSE, <<Foreign("sources", "lib-extra")>>, NoneThere(DemoMeta), {}, 0),
     World(DemoMeta, FALSE, <<Projects(DemoMeta)[2], Projects(DemoMeta)[3]>>,
           [NoneThere(DemoMeta) EXCEPT !["demo"] = DemoFull, !["kit"] = Empty], {}, 0)}

\* The shipped registry: a clone whose submodules were never initialised, a
\* fully initialised tree, a tree with only the vendors registered, and a
\* partly registered one next to a foreign submodule sources/vue-router.
ShippedWorlds ==
    {World(ShippedMeta, FALSE, AllRegistered(ShippedMeta),
           [n \in DOMAIN NoneThere(ShippedMeta) |-> Empty], {}, 1),
     World(ShippedMeta, FALSE, AllRegistered(ShippedMeta),
           [NoneThere(ShippedMeta) EXCEPT !["vue"] = SourceRepo(MaxBehind),
               !["nuxt"] = SourceRepo(0), !["vite"] = SourceRepo(-1),
               !["unocss"] = SourceRepo(1), !["slidev"] = OneFull,
               !["vueuse"] = OneOther, !["vue-best-practices"] = OneMiss],
           {"slidev", "vue-best-practices"}, 0),
     World(ShippedMeta, FALSE,
           <<Projects(ShippedMeta)[5], Projects(ShippedMeta)[6], Projects(ShippedMeta)[7]>>,
           [NoneThere(ShippedMeta) EXCEPT !["slidev"] = Empty, !["vueuse"] = OneMiss,
               !["vue-best-practices"] = OneFull], {}, 0),
     World(ShippedMeta, FALSE,
           <<Foreign("sources", "vue-router"), Projects(ShippedMeta)[2],
             Projects(ShippedMeta)[6]>>,
           [NoneThere(ShippedMeta) EXCEPT !["nuxt"] = SourceRepo(1), !["vueuse"] = OneFull],
           {"vueuse"}, 0)}

Worlds == DemoSyncWorlds \cup DemoCheckWorlds \cup DemoInitWorlds \cup ShippedWorlds

\* the worlds in which processes are run one after the other
TwiceWorlds ==
    {World(DemoMeta, FALSE, AllRegistered(DemoMeta),
           [NoneThere(DemoMeta) EXCEPT !["lib"] = SourceRepo(0), !["demo"] = DemoOther,
               !["kit"] = OneFull], OutNames(DemoMeta), 0),
     World(DemoMeta, FALSE, AllRegistered(DemoMeta),
           [NoneThere(DemoMeta) EXCEPT !["lib"] = SourceRepo(0), !["demo"] = DemoMissFirst,
               !["kit"] = Absent], {"demo"}, 0),
     World(DemoMeta, TRUE, <<>>, NoneThere(DemoMeta), {}, 0),
     World(DemoMeta, FALSE, <<Projects(DemoMeta)[1]>>,
           [NoneThere(DemoMeta) EXCEPT !["lib"] = SourceRepo(0)], {}, 0)}

(***************************************************************************)
(* The process.                                                            *)
(***************************************************************************)
Dates == <<"2026-11-06", "2026-11-07", "2026-11-08", "2026-11-09">>

EmptyFrame ==
    [argv |-> "", op |-> "", existing |-> <<>>, new |-> <<>>, selected |-> <<>>,
     i |-> 0, vi |-> 0, si |-> 0, files |-> <<>>, fi |-> 0, updates |-> <<>>]

NoRun == [op |-> "", end |-> "", exit |-> 0, fs |-> NoTree, git |-> NoTree, log |-> <<>>]

\* one process started in world w, with `more` further processes after it
InitIn(W, more) ==
    /\ \E w \in W : meta = w.meta /\ fs = w.fs /\ repo = w.repo
    /\ today = 1
    /\ pc = "idle"
    /\ frame = EmptyFrame
    /\ log = <<>>
    /\ execs = <<>>
    /\ hist = [runs |-> 0, budget |-> 1 + more, fs0 |-> fs, repo0 |-> repo,
               prev |-> NoRun, last |-> NoRun]

Init == InitIn(Worlds, 0)

Say(entry) == log' = Append(log, entry)

\* the exit status of the process: process.exit(0) after the menu was
\* cancelled (line 345); main's promise resolved; or main's promise rejected
\* and the rejection handled by .catch(console.error) (line 363), which prints
\* the error and sets no exit code
ExitStatus(how) ==
    CASE how = "cancelled" -> 0
      [] how = "done" -> 0
      [] how = "crashed" -> 0

\* the process ends: what it did is kept as the last run
Finish(how, tree, out) ==
    /\ pc' = "idle"
    /\ log' = out
    /\ hist' = [hist EXCEPT !.last = [op |-> frame.op, end |-> how, exit |-> ExitStatus(how),
                                      fs |-> tree, git |-> repo, log |-> out]]

Operations == {"init", "sync", "check"}

\* process.argv.slice(2)[0]: a subcommand, nothing ("") or any other word
Argv == Operations \cup {"", "other"}

\* main (README.md 306-329): a process starts, with or without a subcommand
Start ==
    /\ pc = "idle"
    /\ hist.runs < hist.budget
    /\ \E command \in Argv :
        /\ frame' = [EmptyFrame EXCEPT !.argv = command,
                         !.op = IF command \in Operations THEN command ELSE ""]
        /\ pc' = IF command \in Operations THEN command ELSE "menu"
        /\ log' = <<IF command \in Operations THEN <<"intro", "Skills Manager", command>>
                    ELSE <<"intro", "Skills Manager">>>>
    /\ execs' = <<>>
    /\ hist' = [hist EXCEPT !.runs = @ + 1, !.fs0 = fs, !.repo0 = repo, !.prev = hist.last]
    /\ UNCHANGED <<meta, fs, repo, today>>

\* while no process runs the calendar day may change
Midnight ==
    /\ pc = "idle"
    /\ hist.runs < hist.budget
    /\ today < MaxDay
    /\ today' = today + 1
    /\ UNCHANGED <<meta, fs, repo, pc, frame, log, execs, hist>>

\* the menu with the case 'check' of the switch calling syncSubmodules
MenuCheckCallsSync ==
    /\ pc = "menu"
    /\ \/ \E action \in Operations :
            /\ pc' = IF action = "check" THEN "sync" ELSE action
            /\ frame' = [frame EXCEPT !.op = action]
            /\ UNCHANGED <<log, hist>>
       \/ /\ Finish("cancelled", fs, Append(log, <<"cancel", "Cancelled">>))
          /\ UNCHANGED frame
    /\ UNCHANGED <<meta, fs, repo, today, execs>>

\* main (README.md 331-358): the interactive menu
Menu ==
    /\ pc = "menu"
    /\ \/ \E action \in {"init", "sync", "check"} :
            /\ pc' = action
            /\ frame' = [frame EXCEPT !.op = action]
            /\ UNCHANGED <<log, hist>>
       \/ /\ Finish("cancelled", fs, Append(log, <<"cancel", "Cancelled">>))
          /\ UNCHANGED frame
    /\ UNCHANGED <<meta, fs, repo, today, execs>>

\* the outro of a subcommand without the return of line 314: main goes on to
\* the menu
OutroNoReturn ==
    /\ pc = "outro"
    /\ IF frame.argv = "init"
       THEN /\ Say(<<"outro", "Done">>)
            /\ pc' = "menu"
            /\ UNCHANGED hist
       ELSE Finish("done", fs, Append(log, <<"outro", "Done">>))
    /\ UNCHANGED <<meta, fs, repo, today, frame, execs>>

\* p.outro('Done') after the operation returned
Outro ==
    /\ pc = "outro"
    /\ Finish("done", fs, Append(log, <<"outro", "Done">>))
    /\ UNCHANGED <<meta, fs, repo, today, frame, execs>>

\* main().catch(console.error): an exception left the operation
Catch ==
    /\ pc = "catch"
    /\ Finish("crashed", fs, Append(log, <<"console.error">>))
    /\ UNCHANGED <<meta, fs, repo, today, frame, execs>>

(***************************************************************************)
(* initSubmodules (README.md 91-155)                                       *)
(***************************************************************************)
\* the entries of s at the indices in S, in the order of s
RECURSIVE Pick(_, _, _)
Pick(s, S, k) ==
    IF k > Len(s) THEN <<>>
    ELSE (IF k \in S THEN <<s[k]>> ELSE <<>>) \o Pick(s, S, k + 1)

Reverse(s) == [k \in 1..Len(s) |-> s[Len(s) + 1 - k]]

\* what p.multiselect may return: any of the offered options, each at most
\* once, in the order offered or (toggled in the other order) reversed
Selections(options) ==
    {Pick(options, S, 1) : S \in SUBSET (1..Len(options))}
    \cup {Reverse(Pick(options, S, 1)) : S \in SUBSET (1..Len(options))}

VendorNamed(m, name) == CHOOSE v \in Range(m.vendors) : v.name = name

\* the checkout a successful `git submodule add` clones
AddedProfile(m, project) ==
    IF project.type = "source" THEN SourceRepo(0)
    ELSE IF Len(VendorNamed(m, project.name).skills) = 2 THEN DemoFull ELSE OneFull

AddedSrcs(m, project) ==
    IF project.type = "source" THEN <<>> ELSE SrcNames(VendorNamed(m, project.name))

\* the tree after a successful `git submodule add <url> <path>`: the clone at
\* path and one more entry in .gitmodules (created when missing)
SubmoduleAdd(f, m, project) ==
    LET old == IF existsIn(f, Gitmodules) THEN f[Gitmodules].data ELSE <<>>
    IN  Mount(project.path, CheckoutTree(AddedProfile(m, project), AddedSrcs(m, project)))
        @@ writeFileSync(mkdirSync(f, dirname(project.path)), Gitmodules,
                         old \o GitmodulesEntry(project.path, project.url))

\* the partition without the return of line 112: the report is made and the
\* prompt is shown all the same
InitPartitionNoReturn ==
    /\ pc = "init"
    /\ LET allProjects == Projects(meta)
           existingProjects == SelectSeq(allProjects, LAMBDA q : submoduleExists(fs, q.path))
           newProjects == SelectSeq(allProjects, LAMBDA q : ~submoduleExists(fs, q.path))
       IN  /\ frame' = [frame EXCEPT !.existing = existingProjects, !.new = newProjects]
           /\ pc' = "init_prompt"
           /\ IF Len(newProjects) = 0
              THEN Say(<<"info", "All submodules already initialized">>)
              ELSE UNCHANGED log
    /\ UNCHANGED <<meta, fs, repo, today, execs, hist>>

\* lines 92-113: partition the registry by submoduleExists
InitPartition ==
    /\ pc = "init"
    /\ LET allProjects == Projects(meta)
           existingProjects == SelectSeq(allProjects, LAMBDA q : submoduleExists(fs, q.path))
           newProjects == SelectSeq(allProjects, LAMBDA q : ~submoduleExists(fs, q.path))
       IN  /\ frame' = [frame EXCEPT !.existing = existingProjects, !.new = newProjects]
           /\ IF Len(newProjects) = 0
              THEN /\ Say(<<"info", "All submodules already initialized">>)
                   /\ pc' = "outro"
              ELSE /\ pc' = "init_prompt"
                   /\ UNCHANGED log
    /\ UNCHANGED <<meta, fs, repo, today, execs, hist>>

\* the prompt without the return of line 127: a cancellation is announced
\* and the loop runs over the initial values
InitPromptNoReturn ==
    /\ pc = "init_prompt"
    /\ Say(<<"cancel", "Cancelled">>)
    /\ frame' = [frame EXCEPT !.selected = frame.new, !.i = 1]
    /\ pc' = "init_loop"
    /\ UNCHANGED <<meta, fs, repo, today, execs, hist>>

\* lines 115-130: the multiselect, or its cancellation
InitPrompt ==
    /\ pc = "init_prompt"
    /\ \/ \E selected \in Selections(frame.new) :
            /\ frame' = [frame EXCEPT !.selected = selected, !.i = 1]
            /\ pc' = "init_loop"
            /\ UNCHANGED log
       \/ /\ Say(<<"cancel", "Cancelled">>)
          /\ pc' = "outro"
          /\ UNCHANGED frame
    /\ UNCHANGED <<meta, fs, repo, today, execs, hist>>

\* lines 132-139 and 150-154: the loop head with the parent directory, or the
\* end of the loop.  mkdirSync is outside the try: its exception leaves init.
InitMkdir ==
    /\ pc = "init_loop"
    /\ IF frame.i > Len(frame.selected)
       THEN /\ log' = log \o <<<<"success", "Submodules initialized">>>>
                   \o (IF Len(frame.existing) > 0
                       THEN <<<<"info", "Already initialized">>
                               \o [k \in 1..Len(frame.existing) |-> frame.existing[k].name]>>
                       ELSE <<>>)
            /\ pc' = "outro"
            /\ UNCHANGED fs
       ELSE LET project == frame.selected[frame.i]
                parentDir == dirname(project.path)
            IN  /\ Say(<<"spinner.start", "Adding submodule", project.name>>)
                /\ IF ~existsSync(parentDir)
                   THEN \/ fs' = mkdirSync(fs, parentDir) /\ pc' = "init_add"
                        \/ UNCHANGED fs /\ pc' = "catch"
                   ELSE UNCHANGED fs /\ pc' = "init_add"
    /\ UNCHANGED <<meta, repo, today, frame, execs, hist>>

\* lines 141-147: git submodule add, its failure caught and reported
InitAdd ==
    /\ pc = "init_add"
    /\ LET project == frame.selected[frame.i]
       IN  /\ execs' = Append(execs, <<"git submodule add", project.url>> \o PathText(project.path))
           /\ \/ /\ ~existsSync(project.path)
                 /\ fs' = SubmoduleAdd(fs, meta, project)
                 /\ repo' = [repo EXCEPT ![project.path] =
                                [head |-> AddedProfile(meta, project).head, behind |-> 0]]
                 /\ Say(<<"spinner.stop", "Added", project.name>>)
              \/ /\ UNCHANGED <<fs, repo>>
                 /\ Say(<<"spinner.stop", "Failed to add", project.name>>)
    /\ frame' = [frame EXCEPT !.i = @ + 1]
    /\ pc' = "init_loop"
    /\ UNCHANGED <<meta, today, hist>>

(***************************************************************************)
(* syncSubmodules (README.md 157-252)                                      *)
(***************************************************************************)
vendorPath(v) == <<"vendor", v.name>>

vendorSkillsPath(v) == join(vendorPath(v), <<"skills">>)

sourceSkillPath(v, pair) == join(vendorSkillsPath(v), <<pair.src>>)

\* the output directory named after the source skill
outputPathOfSource(pair) == <<"skills", pair.src>>

outputPath(pair) == <<"skills", pair.out>>

\* an initialised vendor checkout after new upstream commits were merged
Pulled(f, v, pr) == Mount(vendorPath(v), CheckoutTree(pr, SrcNames(v))) @@ rmSync(f, vendorPath(v))

\* the update step without the return of line 168
SyncUpdateNoReturn ==
    /\ pc = "sync"
    /\ execs' = Append(execs, <<"git submodule update --remote --merge">>)
    /\ log' = log \o << <<"spinner.start", "Updating submodules...">>,
                        <<"spinner.stop", "Failed to update submodules">> >>
    /\ frame' = [frame EXCEPT !.vi = 1]
    /\ pc' = "sync_vendor"
    /\ UNCHANGED <<meta, fs, repo, today, hist>>

\* lines 160-169: `git submodule update --remote --merge`.  On success every
\* initialised checkout is at its upstream; here at most one vendor moved.
\* On failure the operation returns.
SyncUpdate ==
    /\ pc = "sync"
    /\ execs' = Append(execs, <<"git submodule update --remote --merge">>)
    /\ \/ /\ \/ UNCHANGED <<fs, repo>>
             \/ \E v \in Range(meta.vendors) : \E pr \in RepoProfiles(v) :
                   /\ existsSync(join(vendorPath(v), GitDir))
                   /\ fs' = Pulled(fs, v, pr)
                   /\ fs' # fs
                   /\ repo' = [repo EXCEPT ![vendorPath(v)] = [head |-> pr.head, behind |-> 0]]
          /\ log' = log \o << <<"spinner.start", "Updating submodules...">>,
                              <<"spinner.stop", "Submodules updated">> >>
          /\ frame' = [frame EXCEPT !.vi = 1]
          /\ pc' = "sync_vendor"
       \/ /\ UNCHANGED <<fs, repo, frame>>
          /\ log' = log \o << <<"spinner.start", "Updating submodules...">>,
                              <<"spinner.stop", "Failed to update submodules">> >>
          /\ pc' = "outro"
    /\ UNCHANGED <<meta, today, hist>>

\* the vendor loop with `break` in place of the `continue` of lines 179 and 184
SyncVendorBreak ==
    /\ pc = "sync_vendor"
    /\ IF frame.vi > Len(meta.vendors)
       THEN /\ Say(<<"success", "All skills synced">>)
            /\ pc' = "outro"
            /\ UNCHANGED frame
       ELSE LET v == meta.vendors[frame.vi]
            IN  IF ~existsSync(vendorPath(v))
                THEN /\ Say(<<"warn", "Vendor submodule not found", v.name>>)
                     /\ frame' = [frame EXCEPT !.vi = Len(meta.vendors) + 1]
                     /\ UNCHANGED pc
                ELSE IF ~existsSync(vendorSkillsPath(v))
                THEN /\ Say(<<"warn", "No skills directory in", v.name>>)
                     /\ frame' = [frame EXCEPT !.vi = Len(meta.vendors) + 1]
                     /\ UNCHANGED pc
                ELSE /\ frame' = [frame EXCEPT !.si = 1]
                     /\ pc' = "sync_pair"
                     /\ UNCHANGED log
    /\ UNCHANGED <<meta, fs, repo, today, execs, hist>>

\* lines 172-185 and 251: the vendor loop head, or the end of the loop
SyncVendor ==
    /\ pc = "sync_vendor"
    /\ IF frame.vi > Len(meta.vendors)
       THEN /\ Say(<<"success", "All skills synced">>)
            /\ pc' = "outro"
            /\ UNCHANGED frame
       ELSE LET v == meta.vendors[frame.vi]
            IN  IF ~existsSync(vendorPath(v))
                THEN /\ Say(<<"warn", "Vendor submodule not found", v.name>>)
                     /\ frame' = [frame EXCEPT !.vi = @ + 1]
                     /\ UNCHANGED pc
                ELSE IF ~existsSync(vendorSkillsPath(v))
                THEN /\ Say(<<"warn", "No skills directory in", v.name>>)
                     /\ frame' = [frame EXCEPT !.vi = @ + 1]
                     /\ UNCHANGED pc
                ELSE /\ frame' = [frame EXCEPT !.si = 1]
                     /\ pc' = "sync_pair"
                     /\ UNCHANGED log
    /\ UNCHANGED <<meta, fs, repo, today, execs, hist>>

\* the pair loop with `break` in place of the `continue` of line 194
SyncPairBreak ==
    /\ pc = "sync_pair"
    /\ LET v == meta.vendors[frame.vi]
       IN  IF frame.si > Len(v.skills) \/ ~existsSync(sourceSkillPath(v, v.skills[frame.si]))
           THEN /\ frame' = [frame EXCEPT !.vi = @ + 1]
                /\ pc' = "sync_vendor"
                /\ UNCHANGED log
           ELSE /\ Say(<<"spinner.start", "Syncing skill", v.skills[frame.si].src,
                          v.skills[frame.si].out>>)
                /\ pc' = "sync_rm"
                /\ UNCHANGED frame
    /\ UNCHANGED <<meta, fs, repo, today, execs, hist>>

\* the pair loop with the output directory removed before the source is tested
SyncPairRemoveFirst ==
    /\ pc = "sync_pair"
    /\ LET v == meta.vendors[frame.vi]
       IN  IF frame.si > Len(v.skills)
           THEN /\ frame' = [frame EXCEPT !.vi = @ + 1]
                /\ pc' = "sync_vendor"
                /\ UNCHANGED <<log, fs>>
           ELSE LET pair == v.skills[frame.si]
                IN  /\ fs' = rmSync(fs, outputPath(pair))
                    /\ IF ~existsSync(sourceSkillPath(v, pair))
                       THEN /\ Say(<<"warn", "Skill not found", v.name, pair.src>>)
                            /\ frame' = [frame EXCEPT !.si = @ + 1]
                            /\ UNCHANGED pc
                       ELSE /\ Say(<<"spinner.start", "Syncing skill", pair.src, pair.out>>)
                            /\ pc' = "sync_rm"
                            /\ UNCHANGED frame
    /\ UNCHANGED <<meta, repo, today, execs, hist>>

\* lines 188-197: the pair loop head, or the end of the loop
SyncPair ==
    /\ pc = "sync_pair"
    /\ LET v == meta.vendors[frame.vi]
       IN  IF frame.si > Len(v.skills)
           THEN /\ frame' = [frame EXCEPT !.vi = @ + 1]
                /\ pc' = "sync_vendor"
                /\ UNCHANGED log
           ELSE LET pair == v.skills[frame.si]
                IN  IF ~existsSync(sourceSkillPath(v, pair))
                    THEN /\ Say(<<"warn", "Skill not found", v.name, pair.src>>)
                         /\ frame' = [frame EXCEPT !.si = @ + 1]
                         /\ UNCHANGED pc
                    ELSE /\ Say(<<"spinner.start", "Syncing skill", pair.src, pair.out>>)
                         /\ pc' = "sync_rm"
                         /\ UNCHANGED frame
    /\ UNCHANGED <<meta, fs, repo, today, execs, hist>>

\* what readdirSync(dir, { recursive: true, withFileTypes: true }) returns:
\* one Dirent for everything below dir
readdirSync(f, dir) ==
    SetToSeq({[parentPath |-> dirname(q), name |-> basename(q), kind |-> f[q].kind] :
                q \in Below(f, dir)})

isFile(dirent) == dirent.kind = "file"

\* the removal left out: the output directory is kept as it is
SyncRemoveKeep ==
    /\ pc = "sync_rm"
    /\ pc' = "sync_mkdir"
    /\ UNCHANGED <<meta, fs, repo, today, frame, log, execs, hist>>

\* the removal followed by a `continue`: an existing output directory is
\* removed and the pair is left at that
SyncRemoveContinue ==
    /\ pc = "sync_rm"
    /\ LET pair == meta.vendors[frame.vi].skills[frame.si]
       IN  IF existsSync(outputPath(pair))
           THEN /\ fs' = rmSync(fs, outputPath(pair))
                /\ frame' = [frame EXCEPT !.si = @ + 1]
                /\ pc' = "sync_pair"
           ELSE UNCHANGED <<fs, frame>> /\ pc' = "sync_mkdir"
    /\ UNCHANGED <<meta, repo, today, log, execs, hist>>

\* lines 200-202: remove what is at the output path
SyncRemove ==
    /\ pc = "sync_rm"
    /\ LET pair == meta.vendors[frame.vi].skills[frame.si]
       IN  IF existsSync(outputPath(pair))
           THEN \/ fs' = rmSync(fs, outputPath(pair)) /\ pc' = "sync_mkdir"
                \/ UNCHANGED fs /\ pc' = "catch"
           ELSE UNCHANGED fs /\ pc' = "sync_mkdir"
    /\ UNCHANGED <<meta, repo, today, frame, log, execs, hist>>

\* the text of SYNC.md (lines 238-243); Tick stands for the backtick character
Tick == "BACKTICK"

syncContent(vendorName, sourceSkillName, sha, date) ==
    <<"# Sync Info", "- **Source:** ", Tick, "vendor/", vendorName, "/skills/",
      sourceSkillName, Tick, "- **Git SHA:** ", Tick>>
    \o Template(sha) \o <<Tick, "- **Synced:** ", date>>

\* the output directory recreated with the provenance record written at once,
\* before the copy
SyncMkdirRecordFirst ==
    /\ pc = "sync_mkdir"
    /\ LET v == meta.vendors[frame.vi]
           pair == v.skills[frame.si]
       IN  \/ /\ fs' = writeFileSync(mkdirSync(fs, outputPath(pair)),
                                     join(outputPath(pair), <<"SYNC.md">>),
                                     syncContent(v.name, pair.src,
                                                 getGitSha(fs, repo, vendorPath(v)), Dates[today]))
              /\ frame' = [frame EXCEPT !.files = readdirSync(fs, sourceSkillPath(v, pair)),
                                        !.fi = 1]
              /\ pc' = "sync_copy"
           \/ UNCHANGED <<fs, frame>> /\ pc' = "catch"
    /\ UNCHANGED <<meta, repo, today, log, execs, hist>>

\* lines 203-206: recreate the output directory and list the source skill
SyncMkdir ==
    /\ pc = "sync_mkdir"
    /\ LET v == meta.vendors[frame.vi]
           pair == v.skills[frame.si]
       IN  \/ /\ fs' = mkdirSync(fs, outputPath(pair))
              /\ frame' = [frame EXCEPT !.files = readdirSync(fs, sourceSkillPath(v, pair)),
                                        !.fi = 1]
              /\ pc' = "sync_copy"
           \/ UNCHANGED <<fs, frame>> /\ pc' = "catch"
    /\ UNCHANGED <<meta, repo, today, log, execs, hist>>

\* lines 207-221: one Dirent of the listing; a regular file is copied to the
\* same relative path below the output directory
SyncCopy ==
    /\ pc = "sync_copy"
    /\ LET v == meta.vendors[frame.vi]
           pair == v.skills[frame.si]
       IN  IF frame.fi > Len(frame.files)
           THEN /\ pc' = "sync_license"
                /\ UNCHANGED <<fs, frame>>
           ELSE LET file == frame.files[frame.fi]
                    fullPath == join(file.parentPath, <<file.name>>)
                    relativePath == replace(fullPath, sourceSkillPath(v, pair))
                    destPath == join(outputPath(pair), relativePath)
                    destDir == dirname(destPath)
                IN  IF isFile(file)
                    THEN \/ /\ fs' = cpSync(IF ~existsSync(destDir) THEN mkdirSync(fs, destDir)
                                              ELSE fs,
                                              fullPath, destPath)
                            /\ frame' = [frame EXCEPT !.fi = @ + 1]
                            /\ UNCHANGED pc
                         \/ UNCHANGED <<fs, frame>> /\ pc' = "catch"
                    ELSE /\ frame' = [frame EXCEPT !.fi = @ + 1]
                         /\ UNCHANGED <<fs, pc>>
    /\ UNCHANGED <<meta, repo, today, log, execs, hist>>

licenseNames == <<"LICENSE", "LICENSE.md", "LICENSE.txt", "license", "license.md", "license.txt">>

\* the loop without the break of line 229: the last candidate that exists
\* is the one whose copy stays
LastLicense(f, dir) ==
    LET found == {k \in 1..Len(licenseNames) : existsIn(f, join(dir, <<licenseNames[k]>>))}
    IN  IF found = {} THEN 0 ELSE CHOOSE k \in found : \A j \in found : k >= j

\* the first candidate that exists in dir, 0 if none (the loop with break)
FirstLicense(f, dir) ==
    LET found == {k \in 1..Len(licenseNames) : existsIn(f, join(dir, <<licenseNames[k]>>))}
    IN  IF found = {} THEN 0 ELSE CHOOSE k \in found : \A j \in found : k <= j

\* the license step leaving a LICENSE.md that is already in the output
\* directory as it is
SyncLicenseKeepExisting ==
    /\ pc = "sync_license"
    /\ LET v == meta.vendors[frame.vi]
           pair == v.skills[frame.si]
           k == FirstLicense(fs, vendorPath(v))
       IN  IF k = 0 \/ existsSync(join(outputPath(pair), <<"LICENSE.md">>))
           THEN UNCHANGED fs /\ pc' = "sync_write"
           ELSE \/ /\ fs' = cpSync(fs, join(vendorPath(v), <<licenseNames[k]>>),
                                    join(outputPath(pair), <<"LICENSE.md">>))
                   /\ pc' = "sync_write"
                \/ UNCHANGED fs /\ pc' = "catch"
    /\ UNCHANGED <<meta, repo, today, frame, log, execs, hist>>

\* lines 224-231: the vendor's license, if it has one, becomes LICENSE.md
SyncLicense ==
    /\ pc = "sync_license"
    /\ LET v == meta.vendors[frame.vi]
           pair == v.skills[frame.si]
           k == FirstLicense(fs, vendorPath(v))
       IN  IF k = 0
           THEN UNCHANGED fs /\ pc' = "sync_write"
           ELSE \/ /\ fs' = cpSync(fs, join(vendorPath(v), <<licenseNames[k]>>),
                                    join(outputPath(pair), <<"LICENSE.md">>))
                   /\ pc' = "sync_write"
                \/ UNCHANGED fs /\ pc' = "catch"
    /\ UNCHANGED <<meta, repo, today, frame, log, execs, hist>>

\* the provenance record written with the output skill name in its Source
\* field
SyncWriteOutputName ==
    /\ pc = "sync_write"
    /\ LET v == meta.vendors[frame.vi]
           pair == v.skills[frame.si]
           sha == getGitSha(fs, repo, vendorPath(v))
           syncPath == join(outputPath(pair), <<"SYNC.md">>)
           date == Dates[today]
       IN  /\ execs' = Append(execs, <<"git rev-parse HEAD", "vendor/", v.name>>)
           /\ \/ /\ fs' = writeFileSync(fs, syncPath, syncContent(v.name, pair.out, sha, date))
                 /\ Say(<<"spinner.stop", "Synced", pair.src, pair.out>>)
                 /\ frame' = [frame EXCEPT !.si = @ + 1]
                 /\ pc' = "sync_pair"
              \/ UNCHANGED <<fs, frame, log>> /\ pc' = "catch"
    /\ UNCHANGED <<meta, repo, today, hist>>

\* lines 234-247: the provenance record, then on to the next pair
SyncWrite ==
    /\ pc = "sync_write"
    /\ LET v == meta.vendors[frame.vi]
           pair == v.skills[frame.si]
           sha == getGitSha(fs, repo, vendorPath(v))
           syncPath == join(outputPath(pair), <<"SYNC.md">>)
           date == Dates[today]
       IN  /\ execs' = Append(execs, <<"git rev-parse HEAD", "vendor/", v.name>>)
           /\ \/ /\ fs' = writeFileSync(fs, syncPath, syncContent(v.name, pair.src, sha, date))
                 /\ Say(<<"spinner.stop", "Synced", pair.src, pair.out>>)
                 /\ frame' = [frame EXCEPT !.si = @ + 1]
                 /\ pc' = "sync_pair"
              \/ UNCHANGED <<fs, frame, log>> /\ pc' = "catch"
    /\ UNCHANGED <<meta, repo, today, hist>>

(***************************************************************************)
(* checkUpdates (README.md 254-304)                                        *)
(***************************************************************************)
\* git's state after `git submodule foreach git fetch` found one new upstream
\* commit in every initialised submodule that tracks a branch
Fetched(f, r) ==
    [q \in DOMAIN r |->
        IF q # <<>> /\ existsIn(f, join(q, GitDir)) /\ r[q].behind >= 0
           /\ r[q].behind < MaxBehind
        THEN [r[q] EXCEPT !.behind = @ + 1] ELSE r[q]]

\* the fetch without the return of line 264: its failure is reported and the
\* loops run on the refs there are
CheckFetchNoReturn ==
    /\ pc = "check"
    /\ execs' = Append(execs, <<"git submodule foreach git fetch">>)
    /\ log' = log \o << <<"spinner.start", "Fetching remote changes...">>,
                        <<"spinner.stop", "Failed to fetch">> >>
    /\ frame' = [frame EXCEPT !.i = 1, !.updates = <<>>]
    /\ pc' = "check_sources"
    /\ UNCHANGED <<meta, fs, repo, today, hist>>

\* lines 256-267: the fetch; its failure ends the operation
CheckFetch ==
    /\ pc = "check"
    /\ execs' = Append(execs, <<"git submodule foreach git fetch">>)
    /\ \/ /\ repo' \in {repo, Fetched(fs, repo)}
          /\ log' = log \o << <<"spinner.start", "Fetching remote changes...">>,
                              <<"spinner.stop", "Fetched remote changes">> >>
          /\ frame' = [frame EXCEPT !.i = 1, !.updates = <<>>]
          /\ pc' = "check_sources"
       \/ /\ UNCHANGED <<repo, frame>>
          /\ log' = log \o << <<"spinner.start", "Fetching remote changes...">>,
                              <<"spinner.stop", "Failed to fetch">> >>
          /\ pc' = "outro"
    /\ UNCHANGED <<meta, fs, today, hist>>

\* the source loop staying at a project whose directory is missing
CheckSourceRetry ==
    /\ pc = "check_sources"
    /\ IF frame.i > Len(meta.submodules)
       THEN /\ frame' = [frame EXCEPT !.vi = 1]
            /\ pc' = "check_vendors"
            /\ UNCHANGED execs
       ELSE LET name == meta.submodules[frame.i].name
                path == <<"sources", name>>
                behind == execSafe(RevListCount(fs, repo, path))
            IN  /\ UNCHANGED pc
                /\ IF ~existsSync(path)
                   THEN UNCHANGED <<frame, execs>>
                   ELSE /\ execs' = Append(execs, <<"git rev-list HEAD..@{u} --count">>
                                                   \o PathText(path))
                        /\ IF Truthy(behind) /\ parseInt(behind.str) > 0
                           THEN frame' = [frame EXCEPT !.i = @ + 1,
                                    !.updates = Append(@, [name |-> <<name>>, type |-> "source",
                                                           behind |-> parseInt(behind.str)])]
                           ELSE frame' = [frame EXCEPT !.i = @ + 1]
    /\ UNCHANGED <<meta, fs, repo, today, log, hist>>

\* lines 270-279: one source project
CheckSource ==
    /\ pc = "check_sources"
    /\ IF frame.i > Len(meta.submodules)
       THEN /\ frame' = [frame EXCEPT !.vi = 1]
            /\ pc' = "check_vendors"
            /\ UNCHANGED execs
       ELSE LET name == meta.submodules[frame.i].name
                path == <<"sources", name>>
                behind == execSafe(RevListCount(fs, repo, path))
            IN  /\ UNCHANGED pc
                /\ IF ~existsSync(path)
                   THEN /\ frame' = [frame EXCEPT !.i = @ + 1]
                        /\ UNCHANGED execs
                   ELSE /\ execs' = Append(execs, <<"git rev-list HEAD..@{u} --count">>
                                                   \o PathText(path))
                        /\ IF Truthy(behind) /\ parseInt(behind.str) > 0
                           THEN frame' = [frame EXCEPT !.i = @ + 1,
                                    !.updates = Append(@, [name |-> <<name>>, type |-> "source",
                                                           behind |-> parseInt(behind.str)])]
                           ELSE frame' = [frame EXCEPT !.i = @ + 1]
    /\ UNCHANGED <<meta, fs, repo, today, log, hist>>

\* Object.values(vendorConfig.skills).join(', ')
OutList(v) == [k \in 1..Len(v.skills) |-> v.skills[k].out]

\* lines 282-293: one vendor project
CheckVendor ==
    /\ pc = "check_vendors"
    /\ IF frame.vi > Len(meta.vendors)
       THEN /\ pc' = "check_report"
            /\ UNCHANGED <<frame, execs>>
       ELSE LET v == meta.vendors[frame.vi]
                path == <<"vendor", v.name>>
                behind == execSafe(RevListCount(fs, repo, path))
            IN  /\ UNCHANGED pc
                /\ IF ~existsSync(path)
                   THEN /\ frame' = [frame EXCEPT !.vi = @ + 1]
                        /\ UNCHANGED execs
                   ELSE /\ execs' = Append(execs, <<"git rev-list HEAD..@{u} --count">>
                                                   \o PathText(path))
                        /\ IF Truthy(behind) /\ parseInt(behind.str) > 0
                           THEN frame' = [frame EXCEPT !.vi = @ + 1,
                                    !.updates = Append(@, [name |-> <<v.name>> \o OutList(v),
                                                           type |-> "vendor",
                                                           behind |-> parseInt(behind.str)])]
                           ELSE frame' = [frame EXCEPT !.vi = @ + 1]
    /\ UNCHANGED <<meta, fs, repo, today, log, hist>>

\* lines 295-303: the report
CheckReport ==
    /\ pc = "check_report"
    /\ IF Len(frame.updates) = 0
       THEN Say(<<"success", "All submodules are up to date">>)
       ELSE log' = log \o <<<<"info", "Updates available:">>>>
                   \o [k \in 1..Len(frame.updates) |->
                         <<"message">> \o frame.updates[k].name
                         \o <<frame.updates[k].type>> \o Digits(frame.updates[k].behind)
                         \o <<"commits behind">>]
    /\ pc' = "outro"
    /\ UNCHANGED <<meta, fs, repo, today, frame, execs, hist>>

(***************************************************************************)
(* The specification.                                                      *)
(***************************************************************************)
Next ==
    \/ Start
    \/ Midnight
    \/ Menu
    \/ Outro
    \/ Catch
    \/ InitPartition
    \/ InitPrompt
    \/ InitMkdir
    \/ InitAdd
    \/ SyncUpdate
    \/ SyncVendor
    \/ SyncPair
    \/ SyncRemove
    \/ SyncMkdir
    \/ SyncCopy
    \/ SyncLicense
    \/ SyncWrite
    \/ CheckFetch
    \/ CheckSource
    \/ CheckVendor
    \/ CheckReport

Spec == Init /\ [][Next]_vars

\* The steps of a started process.  The script is synchronous and sequential:
\* once started it takes its next step whenever it has one, provided every
\* external command and every prompt returns.
Running ==
    \/ Menu \/ Outro \/ Catch
    \/ InitPartition \/ InitPrompt \/ InitMkdir \/ InitAdd
    \/ SyncUpdate \/ SyncVendor \/ SyncPair \/ SyncRemove \/ SyncMkdir \/ SyncCopy
    \/ SyncLicense \/ SyncWrite
    \/ CheckFetch \/ CheckSource \/ CheckVendor \/ CheckReport

\* one process in each of the trees of TwiceWorlds
InitLive == InitIn(TwiceWorlds, 0)

SpecLive == InitLive /\ [][Next]_vars /\ WF_vars(Running)

\* processes one after the other on the same tree
InitTwice == InitIn(TwiceWorlds, MaxRuns - 1)

SpecTwice == InitTwice /\ [][Next]_vars

(***************************************************************************)
(* Vocabulary of the properties.                                           *)
(***************************************************************************)
Ended(op, how) == pc = "idle" /\ hist.last.op = op /\ hist.last.end = how

Logged(entry) == entry \in Range(log)

\* sync ran through both loops and returned normally
SyncCompleted == Ended("sync", "done") /\ Logged(<<"success", "All skills synced">>)

\* every configured (vendor, pair)
Pairs ==
    UNION {{[v |-> v, pair |-> v.skills[j]] : j \in 1..Len(v.skills)} : v \in Range(meta.vendors)}

\* the regular files below dir in tree f: relative path |-> data
RelFiles(f, dir) ==
    [rel \in {SubSeq(q, Len(dir) + 1, Len(q)) : q \in {x \in Below(f, dir) : f[x].kind = "file"}}
        |-> f[join(dir, rel)].data]

Injected == {<<"LICENSE.md">>, <<"SYNC.md">>}

Without(files, names) == [rel \in DOMAIN files \ names |-> files[rel]]

\* C1 as stated: after a completed sync, for every pair whose source skill
\* directory exists, the files below skills/<out> other than LICENSE.md and
\* SYNC.md are exactly the files below vendor/<name>/skills/<src>, path for
\* path and byte for byte.
C1_AsStated ==
    SyncCompleted =>
        \A x \in Pairs :
            existsSync(sourceSkillPath(x.v, x.pair)) =>
                Without(RelFiles(fs, outputPath(x.pair)), Injected)
                    = RelFiles(fs, sourceSkillPath(x.v, x.pair))

\* C1 amended: the same, with a top-level LICENSE.md or SYNC.md of the source
\* skill left out of the comparison as well (the injected files replace them).
C1_MirrorsSource ==
    SyncCompleted =>
        \A x \in Pairs :
            existsSync(sourceSkillPath(x.v, x.pair)) =>
                Without(RelFiles(fs, outputPath(x.pair)), Injected)
                    = Without(RelFiles(fs, sourceSkillPath(x.v, x.pair)), Injected)

\* a completed sync that copied a nested file of a source skill
C1_Witness ==
    /\ SyncCompleted
    /\ \E x \in Pairs :
          /\ existsSync(join(sourceSkillPath(x.v, x.pair), <<"references", "a.md">>))
          /\ existsSync(join(outputPath(x.pair), <<"references", "a.md">>))

\* the part of tree f at and below dir
Sub(f, dir) == [q \in {x \in DOMAIN f : IsPrefix(dir, x)} |-> f[q]]

UpdateFailed == Logged(<<"spinner.stop", "Failed to update submodules">>)

Synced(x) == Logged(<<"spinner.stop", "Synced", x.pair.src, x.pair.out>>)

SkillNotFound(x) == Logged(<<"warn", "Skill not found", x.v.name, x.pair.src>>)

\* C2: when the submodule update of a sync fails, the operation returns at
\* once: no vendor is examined, no other command runs, and nothing under
\* skills/ is removed, created or written; conversely the tree only changes
\* in a sync whose update succeeded.
C2_UpdateFailureAborts ==
    frame.op = "sync" =>
        /\ UpdateFailed =>
              /\ pc \in {"outro", "idle"}
              /\ frame.vi = 0
              /\ execs = <<<<"git submodule update --remote --merge">>>>
              /\ fs = hist.fs0
              /\ \A e \in Range(log) : e[1] # "warn" /\ e[1] # "success"
        /\ (frame.vi > 0 \/ Sub(fs, <<"skills">>) # Sub(hist.fs0, <<"skills">>)) =>
              Logged(<<"spinner.stop", "Submodules updated">>)

\* a sync whose update failed although a vendor had a skill to copy over a
\* stale output directory
C2_Witness ==
    /\ Ended("sync", "done")
    /\ UpdateFailed
    /\ \E x \in Pairs :
          /\ existsSync(sourceSkillPath(x.v, x.pair))
          /\ existsSync(join(outputPath(x.pair), <<"old.md">>))

\* C3: in a completed sync exactly the pairs whose source skill directory
\* exists are synced: a missing source skill skips that pair alone, the other
\* pairs of the same vendor and the pairs of the other vendors are processed.
C3_SkipsOnlyMissingPair ==
    SyncCompleted =>
        \A x \in Pairs : Synced(x) <=> existsSync(sourceSkillPath(x.v, x.pair))

\* a completed sync that skipped the first pair of a vendor for its missing
\* source and synced the vendor's next pair and another vendor's pair
C3_Witness ==
    /\ SyncCompleted
    /\ \E x \in Pairs, y \in Pairs, z \in Pairs :
          /\ x.v = y.v /\ x.pair # y.pair /\ z.v # x.v
          /\ x.pair = x.v.skills[1]
          /\ SkillNotFound(x) /\ ~Synced(x)
          /\ Synced(y) /\ Synced(z)

\* C4: once a pair is skipped for its missing source skill directory, the
\* output directory skills/<out> is as it was when the process started (absent
\* if it was absent, unchanged if it was there); right after the warning the
\* process is still in its loops, and a sync that returns after it reports
\* success.
C4_SkippedPairUntouched ==
    frame.op = "sync" =>
        \A x \in Pairs :
            SkillNotFound(x) =>
                /\ Sub(fs, outputPath(x.pair)) = Sub(hist.fs0, outputPath(x.pair))
                /\ log[Len(log)] = <<"warn", "Skill not found", x.v.name, x.pair.src>>
                      => pc \in {"sync_pair", "sync_vendor"}
                /\ Ended("sync", "done") => Logged(<<"success", "All skills synced">>)

\* a completed sync that skipped a pair whose output directory held files
C4_Witness ==
    /\ SyncCompleted
    /\ \E x \in Pairs :
          /\ SkillNotFound(x)
          /\ existsSync(join(outputPath(x.pair), <<"old.md">>))

\* .gitmodules of tree f holds an entry whose path is exactly path
Registered(f, path) ==
    /\ existsIn(f, Gitmodules)
    /\ Includes(f[Gitmodules].data, <<"path = ">> \o PathText(path) \o <<"url = ">>)

\* how many entries of .gitmodules have exactly this path
EntryCount(f, path) ==
    IF ~existsIn(f, Gitmodules) THEN 0
    ELSE LET data == f[Gitmodules].data
             line == <<"path = ">> \o PathText(path) \o <<"url = ">>
         IN  Cardinality({k \in 1..Len(data) :
                            k + Len(line) - 1 <= Len(data)
                            /\ SubSeq(data, k, k + Len(line) - 1) = line})

AddCommand(project) == <<"git submodule add", project.url>> \o PathText(project.path)

\* C5: a project whose path is in .gitmodules when init starts is not among
\* the projects offered in the prompt, is not selected and no submodule-add is
\* run for it; no path ever has two entries in .gitmodules.
C5_NoReAdd ==
    frame.op = "init" =>
        \A q \in Range(Projects(meta)) :
            /\ Registered(hist.fs0, q.path) =>
                  /\ q \notin Range(frame.new)
                  /\ q \notin Range(frame.selected)
                  /\ AddCommand(q) \notin Range(execs)
            /\ EntryCount(fs, q.path) <= 1

\* an init that found one project registered and added another one
C5_Witness ==
    /\ Ended("init", "done")
    /\ \E q \in Range(Projects(meta)), n \in Range(Projects(meta)) :
          /\ Registered(hist.fs0, q.path)
          /\ q \in Range(frame.existing)
          /\ ~Registered(hist.fs0, n.path)
          /\ Registered(fs, n.path)
          /\ Logged(<<"spinner.stop", "Added", n.name>>)

\* the directory at path is a checkout of its own
OwnCheckout(f, path) == existsIn(f, join(path, GitDir))

\* the number of commits the project's own HEAD is behind its upstream
\* tracking ref; -1 when it has no checkout, no HEAD or no tracking ref
TrueBehind(f, r, path) ==
    IF OwnCheckout(f, path) /\ r[path].head # "" THEN r[path].behind ELSE -1

ReportedAs(q) == {u \in Range(frame.updates) : u.name[1] = q.name /\ u.type = q.type}

\* C6: when check comes to its report, a project is in the list if and only
\* if its own HEAD is at least one commit behind its upstream tracking ref,
\* the count reported is that number, and a project without a tracking ref is
\* not in the list.
C6_ReportsExactlyBehind ==
    (frame.op = "check" /\ pc = "check_report") =>
        \A q \in Range(Projects(meta)) :
            /\ ReportedAs(q) # {} <=> TrueBehind(fs, repo, q.path) >= 1
            /\ \A u \in ReportedAs(q) : u.behind = TrueBehind(fs, repo, q.path)

CompletedSync(run) ==
    /\ run.op = "sync" /\ run.end = "done"
    /\ <<"success", "All skills synced">> \in Range(run.log)

\* the tree f with the date of every skills/<out>/SYNC.md cut off
WithoutDates(f) ==
    [q \in DOMAIN f |->
        IF Len(q) = 3 /\ q[1] = "skills" /\ q[3] = "SYNC.md" /\ f[q].kind = "file"
           /\ f[q].data # <<>>
        THEN File(SubSeq(f[q].data, 1, Len(f[q].data) - 1))
        ELSE f[q]]

\* two syncs in a row, both completed, the second without any change to the
\* vendor checkouts or their commits
SyncedTwice ==
    /\ pc = "idle"
    /\ CompletedSync(hist.prev) /\ CompletedSync(hist.last)
    /\ Sub(fs, <<"vendor">>) = Sub(hist.prev.fs, <<"vendor">>)
    /\ repo = hist.prev.git

\* C7: after two completed syncs in a row with the vendor checkouts unchanged
\* in between, the tree under skills/ after the second is, file for file and
\* byte for byte, the tree after the first, but for the date of each SYNC.md.
C7_SyncIdempotent ==
    SyncedTwice =>
        WithoutDates(Sub(fs, <<"skills">>)) = WithoutDates(Sub(hist.prev.fs, <<"skills">>))

\* two such syncs on different days, where the first replaced a stale output
C7_Witness ==
    /\ SyncedTwice
    /\ Sub(fs, <<"skills">>) # Sub(hist.prev.fs, <<"skills">>)
    /\ \E x \in Pairs : Synced(x) /\ existsSync(join(outputPath(x.pair), <<"SKILL.md">>))

\* C8: the output directory of a pair is gone entirely before it is
\* recreated and is empty when the copy starts; once the pair is synced, no
\* file that was under skills/<out> when the process started and has no
\* counterpart in the source skill (and is not LICENSE.md or SYNC.md) is left.
C8_NoStaleFiles ==
    frame.op = "sync" =>
        /\ pc = "sync_mkdir" =>
              ~existsSync(outputPath(meta.vendors[frame.vi].skills[frame.si]))
        /\ (pc = "sync_copy" /\ frame.fi = 1) =>
              Below(fs, outputPath(meta.vendors[frame.vi].skills[frame.si])) = {}
        /\ \A x \in Pairs :
              Synced(x) =>
                  \A rel \in DOMAIN RelFiles(hist.fs0, outputPath(x.pair)) :
                      (rel \notin Injected
                       /\ rel \notin DOMAIN RelFiles(fs, sourceSkillPath(x.v, x.pair)))
                          => ~existsSync(join(outputPath(x.pair), rel))

\* a synced pair whose output directory held a file the source does not have
C8_Witness ==
    /\ frame.op = "sync"
    /\ \E x \in Pairs :
          /\ Synced(x)
          /\ existsIn(hist.fs0, join(outputPath(x.pair), <<"references", "old.md">>))
          /\ ~existsSync(join(outputPath(x.pair), <<"references", "old.md">>))
          /\ existsSync(join(outputPath(x.pair), <<"SKILL.md">>))

\* the k-th selected project failed: its submodule-add failed, or an
\* exception ended init while it was being processed
FailedAt(k) ==
    \/ Logged(<<"spinner.stop", "Failed to add", frame.selected[k].name>>)
    \/ hist.last.end = "crashed" /\ frame.i = k

\* C9: when an init that made a selection has ended and one selected project
\* failed, a submodule-add was attempted for every selected project after it
\* and init came to its end-of-run report.
C9_FailureDoesNotAbort ==
    (frame.op = "init" /\ pc = "idle" /\ frame.i > 0) =>
        \A k \in 1..Len(frame.selected) :
            FailedAt(k) =>
                /\ \A j \in (k + 1)..Len(frame.selected) :
                      AddCommand(frame.selected[j]) \in Range(execs)
                /\ Logged(<<"success", "Submodules initialized">>)

\* C10: after the prompt of init was cancelled nothing has changed: the tree
\* (directories, .gitmodules) and git's state are those at process start and
\* no command was run.
C10_CancelNoEffect ==
    (frame.op = "init" /\ Logged(<<"cancel", "Cancelled">>)) =>
        /\ fs = hist.fs0
        /\ repo = hist.repo0
        /\ execs = <<>>
        /\ pc \in {"outro", "idle"}

\* a cancelled init that had new projects to offer and a parent directory to
\* create
C10_Witness ==
    /\ Ended("init", "done")
    /\ Logged(<<"cancel", "Cancelled">>)
    /\ Len(frame.new) > 0
    /\ ~existsSync(<<"sources">>)

\* every project of the registry is found in .gitmodules of tree f
NoneNew(f) == \A q \in Range(Projects(meta)) : submoduleExists(f, q.path)

\* the process before this one was an init that added every project
AddedAll(run) ==
    /\ run.op = "init" /\ run.end = "done"
    /\ \A q \in Range(Projects(meta)) : <<"spinner.stop", "Added", q.name>> \in Range(run.log)

\* C11: an init that finds no new project shows no prompt, runs no command,
\* leaves the tree and git's state as they were and returns normally with its
\* report; and an init started right after an init that added every project
\* finds no new project, so the tree after it is the tree the first one left.
C11_InitNoOp ==
    frame.op = "init" =>
        /\ NoneNew(hist.fs0) =>
              /\ pc \in {"init", "outro", "idle"}
              /\ fs = hist.fs0 /\ repo = hist.repo0
              /\ execs = <<>> /\ frame.selected = <<>>
              /\ pc = "idle" =>
                    /\ hist.last.end = "done"
                    /\ Logged(<<"info", "All submodules already initialized">>)
                    /\ ~Logged(<<"success", "Submodules initialized">>)
        /\ AddedAll(hist.prev) =>
              /\ NoneNew(hist.fs0)
              /\ fs = hist.prev.fs /\ repo = hist.prev.git

\* a second init, ended, after a first one that added every project
C11_Witness ==
    /\ Ended("init", "done")
    /\ AddedAll(hist.prev)
    /\ existsSync(<<"sources", "lib", ".git">>)
    /\ Logged(<<"info", "All submodules already initialized">>)

\* the positions of the process inside an operation
OpPcs(op) ==
    CASE op = "init" -> {"init", "init_prompt", "init_loop", "init_add"}
      [] op = "sync" -> {"sync", "sync_vendor", "sync_pair", "sync_rm", "sync_mkdir",
                         "sync_copy", "sync_license", "sync_write"}
      [] op = "check" -> {"check", "check_sources", "check_vendors", "check_report"}

\* the steps of main: a process whose argument is in menuArgv enters the
\* menu, one with any other argument the operation of that name and never the
\* menu; from the menu the selected operation is entered (or the process
\* ends, cancelled).  An operation is entered only from the start or from the
\* menu, the process stays in it until it returns or throws, and after that
\* the process ends: no second operation runs.
MainSteps(menuArgv) ==
    /\ (pc = "idle" /\ pc' # "idle") =>
           \/ frame'.argv \in menuArgv /\ pc' = "menu"
           \/ frame'.argv \in Operations /\ pc' = frame'.argv /\ frame'.op = frame'.argv
    /\ pc = "menu" =>
           /\ frame.argv \in menuArgv
           /\ pc' \in Operations \cup {"idle", "menu"}
           /\ pc' \in Operations => frame'.op = pc'
    /\ \A op \in Operations :
           /\ pc \in OpPcs(op) =>
                 /\ frame.op = op /\ frame.argv \in menuArgv \cup {op}
                 /\ pc' \in OpPcs(op) \cup {"outro", "catch"}
                 /\ frame'.op = op
           /\ (pc' = op /\ pc # op) => pc \in {"idle", "menu"}
    /\ pc \in {"outro", "catch"} => pc' \in {pc, "idle"}

\* C12 as stated: the argument init, sync or check runs exactly the named
\* operation, once, without the menu; the menu is shown only when no argument
\* is given, and then exactly the selected operation runs; no process runs
\* more than one operation.
C12_AsStated == [][MainSteps({""})]_vars

\* C12 amended: the same, with the menu shown exactly when the first argument
\* is none of init, sync and check (no argument, or any other word).
C12_RunsNamedOnce == [][MainSteps(Argv \ Operations)]_vars

\* a check that was selected in the menu of a process started with another
\* word as its argument, and has ended with its report
C12_Witness ==
    /\ Ended("check", "done")
    /\ frame.argv = "other"
    /\ Logged(<<"intro", "Skills Manager">>)
    /\ Logged(<<"spinner.stop", "Fetched remote changes">>)
    /\ Logged(<<"outro", "Done">>)

FetchFailed == Logged(<<"spinner.stop", "Failed to fetch">>)

\* a step whose failure ends the operation failed: the update of sync, the
\* fetch of check, or a call that threw out of the operation
FatalStepFailed == UpdateFailed \/ FetchFailed \/ hist.last.end = "crashed"

\* C13: when a process has ended (other than by the operator cancelling the
\* menu), its final "Done" message was printed if and only if no fatal step
\* failed: always when none failed, never when the update of sync or the
\* fetch of check failed.
C13_DoneUnlessFatal ==
    (pc = "idle" /\ hist.runs > 0 /\ hist.last.end # "cancelled") =>
        (Logged(<<"outro", "Done">>) <=> ~FatalStepFailed)

\* C14: when sync has come back to main, it came back with an exception if
\* and only if the submodule update failed; after a successful update the
\* missing checkouts, skills directories and source skills only gave
\* warnings and sync returned normally after both loops.
C14_RaisesIffUpdateFails ==
    (frame.op = "sync" /\ pc \in {"outro", "catch"}) =>
        /\ pc = "catch" <=> UpdateFailed
        /\ ~UpdateFailed => Logged(<<"success", "All skills synced">>)

\* C15: a process whose operation completed has exit status 0, and a process
\* that ended because an error left its operation uncaught has a non-zero
\* exit status.
C15_ExitStatus ==
    (pc = "idle" /\ hist.runs > 0) =>
        /\ hist.last.end = "done" => hist.last.exit = 0
        /\ hist.last.end = "crashed" => hist.last.exit # 0

\* C16: once the fetch of check has failed, the failure is reported and check
\* returns: no rev-list is run for any project (the fetch is the only command
\* run), nothing is collected, and neither the list of updates nor "All
\* submodules are up to date" is printed.
C16_FetchFailureAborts ==
    (frame.op = "check" /\ FetchFailed) =>
        /\ pc \in {"outro", "idle"}
        /\ execs = <<<<"git submodule foreach git fetch">>>>
        /\ frame.i = 0 /\ frame.vi = 0 /\ frame.updates = <<>>
        /\ \A e \in Range(log) : e[1] \notin {"success", "info", "message"}
        /\ fs = hist.fs0 /\ repo = hist.repo0

\* a check whose fetch failed in a tree where a project is behind its upstream
C16_Witness ==
    /\ Ended("check", "done")
    /\ FetchFailed
    /\ \E q \in Range(Projects(meta)) : TrueBehind(fs, repo, q.path) >= 1

VendorNotFound(v) == Logged(<<"warn", "Vendor submodule not found", v.name>>)

NoSkillsDirectory(v) == Logged(<<"warn", "No skills directory in", v.name>>)

\* the pairs of vendor v
PairsOf(v) == {x \in Pairs : x.v = v}

\* C17: a vendor warned about (checkout absent, or checkout without skills/)
\* has none of its pairs started and each of its output directories is as it
\* was when the process started; in a completed sync the vendors warned about
\* are exactly those whose checkout or skills directory is missing, each with
\* the warning of its case, and every pair of the other vendors whose source
\* skill exists is synced.
C17_VendorSkipped ==
    frame.op = "sync" =>
        /\ \A v \in Range(meta.vendors) :
              (VendorNotFound(v) \/ NoSkillsDirectory(v)) =>
                  \A x \in PairsOf(v) :
                      /\ ~Synced(x)
                      /\ ~Logged(<<"spinner.start", "Syncing skill", x.pair.src, x.pair.out>>)
                      /\ Sub(fs, outputPath(x.pair)) = Sub(hist.fs0, outputPath(x.pair))
        /\ SyncCompleted =>
              \A v \in Range(meta.vendors) :
                  /\ VendorNotFound(v) <=> ~existsSync(vendorPath(v))
                  /\ NoSkillsDirectory(v) <=>
                        (existsSync(vendorPath(v)) /\ ~existsSync(vendorSkillsPath(v)))
                  /\ ~(VendorNotFound(v) \/ NoSkillsDirectory(v)) =>
                        \A x \in PairsOf(v) :
                            existsSync(sourceSkillPath(v, x.pair)) => Synced(x)

\* a completed sync that skipped its first vendor, whose output directory
\* held files, and synced a pair of the next vendor
C17_Witness ==
    /\ SyncCompleted
    /\ \E v \in Range(meta.vendors), w \in Range(meta.vendors) :
          /\ v = meta.vendors[1] /\ w # v
          /\ VendorNotFound(v) \/ NoSkillsDirectory(v)
          /\ \E x \in PairsOf(v) : existsSync(join(outputPath(x.pair), <<"old.md">>))
          /\ \E y \in PairsOf(w) : Synced(y)

\* the candidate names in the order the specification lists them
CandidateOrder == <<"LICENSE", "LICENSE.md", "LICENSE.txt", "license", "license.md", "license.txt">>

LicenseWarnings == {"Vendor submodule not found", "No skills directory in", "Skill not found"}

\* C18: for a synced pair, skills/<out>/LICENSE.md is a copy of the first
\* candidate, in the fixed order, that exists in the vendor checkout root;
\* when no candidate exists nothing is injected (LICENSE.md is there only if
\* the source skill has one of its own, and is that file), no warning other
\* than those about missing checkouts and skills is logged, and the pair is
\* completed with its SYNC.md.
C18_FirstLicense ==
    frame.op = "sync" =>
        /\ \A x \in Pairs :
              LET out == join(outputPath(x.pair), <<"LICENSE.md">>)
                  own == join(sourceSkillPath(x.v, x.pair), <<"LICENSE.md">>)
                  cand == [k \in 1..Len(CandidateOrder) |->
                              join(vendorPath(x.v), <<CandidateOrder[k]>>)]
              IN  /\ Synced(x) =>
                        /\ \A k \in DOMAIN cand :
                              (existsSync(cand[k]) /\ \A j \in 1..(k - 1) : ~existsSync(cand[j]))
                                  => (existsSync(out) /\ fs[out] = fs[cand[k]])
                        /\ (\A k \in DOMAIN cand : ~existsSync(cand[k])) =>
                              IF existsSync(own) THEN existsSync(out) /\ fs[out] = fs[own]
                              ELSE ~existsSync(out)
                        /\ existsSync(join(outputPath(x.pair), <<"SYNC.md">>))
                  /\ (SyncCompleted /\ existsSync(sourceSkillPath(x.v, x.pair))) => Synced(x)
        /\ \A e \in Range(log) : e[1] = "warn" => e[2] \in LicenseWarnings

\* a completed sync with one vendor that has two candidates, the first of
\* them (LICENSE.txt) copied, and one vendor without a license, whose output
\* directory held a LICENSE.md before
C18_Witness ==
    /\ SyncCompleted
    /\ \E x \in Pairs, y \in Pairs :
          /\ Synced(x) /\ Synced(y)
          /\ existsSync(join(vendorPath(x.v), <<"LICENSE.txt">>))
          /\ existsSync(join(vendorPath(x.v), <<"license.md">>))
          /\ fs[join(outputPath(x.pair), <<"LICENSE.md">>)].data = <<"TXT">>
          /\ \A k \in 1..Len(CandidateOrder) :
                ~existsSync(join(vendorPath(y.v), <<CandidateOrder[k]>>))
          /\ existsIn(hist.fs0, join(outputPath(y.pair), <<"LICENSE.md">>))
          /\ ~existsSync(join(outputPath(y.pair), <<"LICENSE.md">>))

\* the tokens of text between the backticks that follow the label, <<>> when
\* the label or the backticks are not there
RECURSIVE UpToTick(_)
UpToTick(t) == IF t = <<>> \/ Head(t) = Tick THEN <<>> ELSE <<Head(t)>> \o UpToTick(Tail(t))

Field(text, label) ==
    LET i == IndexOf(text, <<label, Tick>>)
    IN  IF i = 0 THEN <<>> ELSE UpToTick(SubSeq(text, i + 2, Len(text)))

SyncRecord(x) == join(outputPath(x.pair), <<"SYNC.md">>)

\* C19: for a synced pair, skills/<out>/SYNC.md is a regular file holding the
\* record of this run (its heading, today's date), whatever record was there
\* when the process started or came with the source skill, and its Source
\* field is vendor/<vendorName>/skills/<src>: the source skill name, not the
\* output skill name.
C19_SyncRecordNamesSource ==
    frame.op = "sync" =>
        \A x \in Pairs :
            Synced(x) =>
                /\ existsSync(SyncRecord(x))
                /\ fs[SyncRecord(x)].kind = "file"
                /\ Field(fs[SyncRecord(x)].data, "- **Source:** ")
                      = <<"vendor/", x.v.name, "/skills/", x.pair.src>>
                /\ fs[SyncRecord(x)].data[Len(fs[SyncRecord(x)].data)] = Dates[today]
                /\ Head(fs[SyncRecord(x)].data) = "# Sync Info"

\* a synced pair whose output name differs from its source name and whose
\* output directory held an older record
C19_Witness ==
    /\ SyncCompleted
    /\ \E x \in Pairs :
          /\ Synced(x)
          /\ x.pair.src # x.pair.out
          /\ existsIn(hist.fs0, SyncRecord(x))
          /\ hist.fs0[SyncRecord(x)].data = <<"S1">>
          /\ fs[SyncRecord(x)].data # <<"S1">>

\* the commit hash of the checkout's own HEAD, nothing when the directory is
\* no checkout of its own or has no commit
TrueHead(f, r, path) ==
    IF OwnCheckout(f, path) /\ r[path].head # "" THEN <<r[path].head>> ELSE <<>>

\* C20: for a synced pair, the Git SHA field of SYNC.md holds the hash of the
\* vendor checkout's HEAD when it can be resolved and nothing (the two
\* backticks with nothing between them) when it cannot; a pair whose hash
\* cannot be resolved is synced all the same.
C20_ShaOrEmpty ==
    frame.op = "sync" =>
        \A x \in Pairs :
            /\ Synced(x) =>
                  Field(fs[SyncRecord(x)].data, "- **Git SHA:** ")
                      = TrueHead(fs, repo, vendorPath(x.v))
            /\ (SyncCompleted /\ existsSync(sourceSkillPath(x.v, x.pair))) => Synced(x)

\* check has gone through both loops
CheckExamined == frame.op = "check" /\ pc \in {"check_report", "outro", "idle"} /\ ~FetchFailed

\* C21: in a check that went through its loops, a project without a checkout
\* of its own, without an upstream tracking ref, or whose rev-list fails is
\* not in the report and nothing is logged about it; check never ends by an
\* exception, and every other project that is behind is in the report.
C21_SilentlyExcluded ==
    frame.op = "check" =>
        /\ pc # "catch"
        /\ \A e \in Range(log) : e[1] \notin {"warn", "error", "console.error"}
        /\ CheckExamined =>
              \A q \in Range(Projects(meta)) :
                  /\ TrueBehind(fs, repo, q.path) = -1 => ReportedAs(q) = {}
                  /\ TrueBehind(fs, repo, q.path) >= 1 => ReportedAs(q) # {}

\* C22: in init a failure to create the parent directory of a selected
\* project does not leave the operation by an exception; when init has ended
\* after a selection, every selected project was started and has its outcome
\* reported, either as added or as failed.
C22_MkdirFailureRecoverable ==
    frame.op = "init" =>
        /\ pc # "catch"
        /\ (pc = "idle" /\ frame.i > 0) =>
              \A k \in 1..Len(frame.selected) :
                  /\ Logged(<<"spinner.start", "Adding submodule", frame.selected[k].name>>)
                  /\ \/ Logged(<<"spinner.stop", "Added", frame.selected[k].name>>)
                     \/ Logged(<<"spinner.stop", "Failed to add", frame.selected[k].name>>)

\* the directories the script runs git in, as far as they exist
WorkingDirs == {<<>>} \cup {q.path : q \in {x \in Range(Projects(meta)) : existsSync(x.path)}}

\* what the two probing commands give in directory dir
Results(dir) == {RevParseHead(fs, repo, dir), RevListCount(fs, repo, dir)}

Partitioned == frame.op = "init" /\ pc \notin {"menu", "init"}

\* C24: after the partition of init, a project counts as existing if and
\* only if .gitmodules held, when the process started, an entry whose path is
\* exactly the project's path, and every other project is among the new ones
\* that are offered; an entry for a longer path that starts with the
\* project's path does not count.
C24_ExactPathMatch ==
    Partitioned =>
        \A q \in Range(Projects(meta)) :
            /\ q \in Range(frame.existing) <=> Registered(hist.fs0, q.path)
            /\ q \in Range(frame.new) <=> ~Registered(hist.fs0, q.path)

\* the pair the sync is working on
CurrentPair == [v |-> meta.vendors[frame.vi], pair |-> meta.vendors[frame.vi].skills[frame.si]]

\* the vendor of x has a license candidate in its checkout root
HasLicense(x) ==
    \E k \in 1..Len(CandidateOrder) : existsSync(join(vendorPath(x.v), <<CandidateOrder[k]>>))

\* the candidates of the vendor of x that exist, as files
LicenseFiles(x) ==
    {fs[join(vendorPath(x.v), <<CandidateOrder[k]>>)] :
        k \in {j \in 1..Len(CandidateOrder) :
                  existsSync(join(vendorPath(x.v), <<CandidateOrder[j]>>))}}

\* C25: when the copy of a pair is done, a LICENSE.md or SYNC.md of the
\* source skill is in the output directory as copied; once the pair is
\* synced, SYNC.md is the generated record and, when the vendor has a license
\* file, LICENSE.md is a copy of a vendor license: the source skill's files of
\* these names have been overwritten.
C25_InjectedOverwrite ==
    frame.op = "sync" =>
        /\ pc = "sync_license" =>
              \A rel \in Injected :
                  existsSync(join(sourceSkillPath(CurrentPair.v, CurrentPair.pair), rel)) =>
                      /\ existsSync(join(outputPath(CurrentPair.pair), rel))
                      /\ fs[join(outputPath(CurrentPair.pair), rel)]
                            = fs[join(sourceSkillPath(CurrentPair.v, CurrentPair.pair), rel)]
        /\ \A x \in Pairs :
              Synced(x) =>
                  /\ Head(fs[SyncRecord(x)].data) = "# Sync Info"
                  /\ Field(fs[SyncRecord(x)].data, "- **Source:** ") # <<>>
                  /\ HasLicense(x) =>
                        fs[join(outputPath(x.pair), <<"LICENSE.md">>)] \in LicenseFiles(x)

\* a synced pair whose source skill has a LICENSE.md and a SYNC.md of its own
\* that differ from what is in the output directory now
C25_Witness ==
    /\ frame.op = "sync"
    /\ \E x \in Pairs :
          /\ Synced(x)
          /\ HasLicense(x)
          /\ \A rel \in Injected :
                /\ existsSync(join(sourceSkillPath(x.v, x.pair), rel))
                /\ fs[join(outputPath(x.pair), rel)] # fs[join(sourceSkillPath(x.v, x.pair), rel)]

\* the names of the source projects, whose skills are generated
SourceNames(m) == {m.submodules[k].name : k \in 1..Len(m.submodules)}

\* the number of (vendor, pair) entries of registry m
RECURSIVE PairCount(_, _)
PairCount(m, k) == IF k > Len(m.vendors) THEN 0 ELSE Len(m.vendors[k].skills) + PairCount(m, k + 1)

\* the paths below skills/ that lie in no output directory of the registry
Elsewhere(f) ==
    {q \in DOMAIN f : Len(q) >= 2 /\ q[1] = "skills" /\ q[2] \notin OutNames(meta)}

\* C26: during and after a sync, everything below skills/ that is not inside
\* skills/<out> for an output name of the registry is as it was when the
\* process started, and skills/ itself is still there; the output names are
\* pairwise distinct and none is the name of a source project, so the
\* generated skill directories are among what is left as it was.
C26_OnlyOutputDirs ==
    frame.op = "sync" =>
        /\ Elsewhere(fs) = Elsewhere(hist.fs0)
        /\ \A q \in Elsewhere(fs) : fs[q] = hist.fs0[q]
        /\ existsSync(<<"skills">>)
        /\ Cardinality(OutNames(meta)) = PairCount(meta, 1)
        /\ OutNames(meta) \cap SourceNames(meta) = {}
        /\ \A n \in SourceNames(meta) :
              Sub(fs, <<"skills", n>>) = Sub(hist.fs0, <<"skills", n>>)

\* a completed sync with the shipped registry that replaced an output
\* directory next to the generated skill skills/vue
C26_Witness ==
    /\ SyncCompleted
    /\ meta = ShippedMeta
    /\ existsSync(<<"skills", "vue", "SKILL.md">>)
    /\ \E x \in Pairs :
          /\ Synced(x)
          /\ Sub(fs, <<"skills", x.pair.out>>) # Sub(hist.fs0, <<"skills", x.pair.out>>)

\* C27: in init the commands run are submodule-adds for the selected
\* projects, one each, in the order of the selection (so none for a project
\* that was offered and not selected, and none for an empty selection); when
\* init has ended, one was run for every selected project.
C27_AddsExactlySelected ==
    frame.op = "init" =>
        /\ Len(execs) <= Len(frame.selected)
        /\ \A k \in 1..Len(execs) : execs[k] = AddCommand(frame.selected[k])
        /\ pc = "idle" => Len(execs) = Len(frame.selected)

\* the steps of one pair follow each other in this order (or an exception
\* ends the operation)
PairOrder ==
    /\ pc = "sync_rm" => pc' \in {"sync_mkdir", "catch"}
    /\ pc = "sync_mkdir" => pc' \in {"sync_copy", "catch"}
    /\ pc = "sync_copy" => pc' \in {"sync_copy", "sync_license", "catch"}
    /\ pc = "sync_license" => pc' \in {"sync_write", "catch"}
    /\ pc = "sync_write" => pc' \in {"sync_pair", "catch"}
    /\ pc' = "sync_rm" => pc = "sync_pair"

\* what is in the output directory of the current pair while it is synced:
\* before the removal the old tree untouched; after it nothing; from the copy
\* on only copies of source files (and, once the license step is over, the
\* vendor license), all of them from the end of the copy on, and no record
\* generated by this run before the pair is done.
PairContents ==
    LET x == CurrentPair
        out == outputPath(x.pair)
        src == sourceSkillPath(x.v, x.pair)
    IN  /\ pc = "sync_rm" => Sub(fs, out) = Sub(hist.fs0, out)
        /\ pc = "sync_mkdir" => ~existsSync(out)
        /\ pc \in {"sync_copy", "sync_license", "sync_write"} =>
              /\ \A rel \in DOMAIN RelFiles(fs, out) :
                    \/ /\ rel \in DOMAIN RelFiles(fs, src)
                       /\ RelFiles(fs, out)[rel] = RelFiles(fs, src)[rel]
                    \/ /\ rel = <<"LICENSE.md">> /\ pc = "sync_write"
                       /\ fs[join(out, rel)] \in LicenseFiles(x)
              /\ existsSync(SyncRecord(x)) => Head(fs[SyncRecord(x)].data) # "# Sync Info"
        /\ pc \in {"sync_license", "sync_write"} =>
              \A rel \in DOMAIN RelFiles(fs, src) : rel \in DOMAIN RelFiles(fs, out)

\* C28: the steps of a pair happen in the order remove, recreate, copy,
\* license, SYNC.md; at no intermediate state does the output directory hold
\* files from before the run next to files copied in this run, and the record
\* of this run is there only after every source file has been copied.
C28_PairStepsInOrder ==
    [][(frame.op = "sync" /\ pc \in OpPcs("sync") \ {"sync", "sync_vendor", "sync_pair"})
          => (PairOrder /\ PairContents)]_vars

\* in the middle of the copy of a pair whose output directory held older files
C28_Witness ==
    /\ pc = "sync_copy"
    /\ frame.fi > 1 /\ frame.fi <= Len(frame.files)
    /\ existsIn(hist.fs0, join(outputPath(CurrentPair.pair), <<"old.md">>))
    /\ RelFiles(fs, outputPath(CurrentPair.pair)) # <<>>

\* the commands check may run
CheckCommands == {"git submodule foreach git fetch", "git rev-list HEAD..@{u} --count"}

\* C29: in every state of a check, whether its fetch succeeded or failed,
\* everything at and below skills/ and the file .gitmodules are as they were
\* when the process started, and the only commands run are the fetch and the
\* rev-list probes: no submodule is registered.
C29_CheckReadOnly ==
    frame.op = "check" =>
        /\ Sub(fs, <<"skills">>) = Sub(hist.fs0, <<"skills">>)
        /\ Sub(fs, Gitmodules) = Sub(hist.fs0, Gitmodules)
        /\ \A q \in Range(Projects(meta)) : Registered(fs, q.path) <=> Registered(hist.fs0, q.path)
        /\ \A e \in Range(execs) : e[1] \in CheckCommands

\* a check that has ended with a list of updates, in a tree with an output
\* directory that a sync would replace
C29_Witness ==
    /\ Ended("check", "done")
    /\ Logged(<<"info", "Updates available:">>)
    /\ \E x \in Pairs :
          /\ existsSync(sourceSkillPath(x.v, x.pair))
          /\ Sub(fs, outputPath(x.pair))
                # Mount(outputPath(x.pair), Sub(fs, sourceSkillPath(x.v, x.pair)))

\* the position of pc among the steps of its operation
Stage(at) ==
    CASE at \in {"init", "sync", "check"} -> 0
      [] at \in {"init_prompt", "sync_vendor", "check_sources"} -> 1
      [] at \in {"init_loop", "sync_pair", "check_vendors"} -> 2
      [] at \in {"init_add", "sync_rm", "check_report"} -> 3
      [] at = "sync_mkdir" -> 4
      [] at = "sync_copy" -> 5
      [] at = "sync_license" -> 6
      [] at = "sync_write" -> 7

\* how far an operation has come: the indices of its loops, outermost first,
\* and the step inside the innermost one
Measure(op, at, fr) ==
    CASE op = "init" -> <<fr.i, Stage(at), 0, 0>>
      [] op = "sync" -> <<fr.vi, IF at \in {"sync", "sync_vendor"} THEN 0 ELSE fr.si,
                          Stage(at), IF at = "sync_copy" THEN fr.fi ELSE 0>>
      [] op = "check" -> <<Stage(at), IF at = "check_sources" THEN fr.i ELSE 0,
                           IF at = "check_vendors" THEN fr.vi ELSE 0, 0>>

LexLess(a, b) ==
    \E k \in 1..4 : a[k] < b[k] /\ \A j \in 1..(k - 1) : a[j] = b[j]

\* every step inside an operation moves it forward, and no loop index goes
\* past the end of its list by more than one
SinglePass ==
    \A op \in Operations :
        (pc \in OpPcs(op) /\ pc' \in OpPcs(op)) =>
            /\ LexLess(Measure(op, pc, frame), Measure(op, pc', frame'))
            /\ frame'.i <= Len(frame'.selected) + Len(meta.submodules) + 1
            /\ frame'.vi <= Len(meta.vendors) + 1
            /\ pc' \in OpPcs("sync") \ {"sync", "sync_vendor"} =>
                  frame'.si <= Len(meta.vendors[frame'.vi].skills) + 1
            /\ pc' = "sync_copy" => frame'.fi <= Len(frame'.files) + 1

\* C30: every step of an operation moves it forward in a single pass over
\* its projects, vendors, pairs and files, nothing being visited again; and a
\* started process whose commands and prompts return comes to its end.
C30_Terminates == [][SinglePass]_vars /\ ((pc # "idle") ~> (pc = "idle"))

\* a completed sync that went over two pairs of one vendor and a pair of
\* another
C30_Witness ==
    /\ SyncCompleted
    /\ \E x \in Pairs, y \in Pairs, z \in Pairs :
          /\ x.v = y.v /\ x # y /\ z.v # x.v
          /\ Synced(x) /\ Synced(y) /\ Synced(z)

====
